---- MODULE Spec2Model ----
(***************************************************************************)
(* Model of src/api.py: the four search endpoints of the gateway           *)
(* (/search, /news, /images over the DDGS provider, /wikipedia over two    *)
(* HTTP calls), one request at a time, each handler cut at the points      *)
(* where it opens, queries and releases a provider connection.             *)
(*                                                                         *)
(* Text is modelled as sequences: the query and the Wikipedia titles and   *)
(* extracts as sequences of characters, messages as sequences of           *)
(* fragments, so that strip(), replace(), slicing and f-string             *)
(* concatenation are computed and not assumed.                             *)
(***************************************************************************)
EXTENDS Integers, Sequences, FiniteSets, TLC

VARIABLES
    DDGS_AVAILABLE, \* module flag set once by the import at start-up
    pc,             \* position of the request in its handler
    req,            \* the request's parameters: endpoint, q, max_results, locale
    conns,          \* identifiers of the provider connections currently open
    opened,         \* number of connections this request has opened so far
    calls,          \* the provider calls issued by this request, in order
    returned,       \* what the provider returned to the first call (0 or 1 lists)
    raw,            \* raw / search_results: the handler's list of provider records
    top_title,      \* /wikipedia: title of the first candidate
    pages,          \* /wikipedia: pages returned by the second call
    extract,        \* /wikipedia: the truncated extract
    results,        \* the normalized records built so far
    exc,            \* the exception in flight: <<>> or <<text>>
    response        \* the response: <<>> until one is produced

vars == <<DDGS_AVAILABLE, pc, req, conns, opened, calls, returned, raw,
          top_title, pages, extract, results, exc, response>>

(***************************************************************************)
(* Bounds of the model.                                                    *)
(***************************************************************************)
MaxQLen == 2        \* longest query string
MaxRecords == 2     \* longest list of records a provider returns
MaxExtra == 2       \* provider extracts are up to ExtractLimit + MaxExtra long

(***************************************************************************)
(* Program constants.                                                      *)
(***************************************************************************)
MinResults == 1
MaxResults == 50
ExtractLimit == 1000

Min(a, b) == IF a < b THEN a ELSE b

SeqsUpTo(S, n) == UNION {[1..k -> S] : k \in 0..n}

(***************************************************************************)
(* Strings.                                                                *)
(***************************************************************************)
\* str.strip() removes every whitespace character; two of them stand for all
Whitespace == {" ", "\t"}
Chars == Whitespace \cup {"a"}
Queries == SeqsUpTo(Chars, MaxQLen)

RECURSIVE LStrip(_)
LStrip(s) ==
    IF s # <<>> /\ Head(s) \in Whitespace THEN LStrip(Tail(s)) ELSE s

RECURSIVE RStrip(_)
RStrip(s) ==
    IF s # <<>> /\ s[Len(s)] \in Whitespace
    THEN RStrip(SubSeq(s, 1, Len(s) - 1))
    ELSE s

\* str.strip()
StripIdentity(s) == s
Strip(s) == RStrip(LStrip(s))

\* `not q or not q.strip()`
IsBlank(s) == s = <<>> \/ Strip(s) = <<>>

\* str.replace(old, new) for a single character old
ReplaceChar(s, old, new) ==
    [i \in 1..Len(s) |-> IF s[i] = old THEN new ELSE s[i]]

\* str.replace(tag, "") for a markup tag held as one fragment
RECURSIVE RemoveAll(_, _)
RemoveAll(s, tag) ==
    IF s = <<>> THEN <<>>
    ELSE IF Head(s) = tag THEN RemoveAll(Tail(s), tag)
    ELSE <<Head(s)>> \o RemoveAll(Tail(s), tag)

\* s[:n]
NoTruncate(s, n) == s
Truncate(s, n) == SubSeq(s, 1, Min(n, Len(s)))

\* whether text occurs in s
Contains(s, text) ==
    \E i \in 0..(Len(s) - Len(text)) : SubSeq(s, i + 1, i + Len(text)) = text

(***************************************************************************)
(* Values of the provider's loosely typed records: a string or None.       *)
(***************************************************************************)
Str(s) == [tag |-> "str", val |-> s]
Null == [tag |-> "null", val |-> ""]
IsStr(v) == v.tag = "str"

\* dict.get(key, default)
Get(item, key, default) == IF key \in DOMAIN item THEN item[key] ELSE default

(***************************************************************************)
(* Requests.                                                               *)
(***************************************************************************)
DDGEndpoints == {"/search", "/news", "/images"}
Endpoints == DDGEndpoints \cup {"/wikipedia"}
MaxResultsInputs == {MinResults - 1, MinResults, MaxResults, MaxResults + 1}
Regions == {"fr-fr", "en-us"}
Langs == {"fr", "en"}

Requests ==
    [endpoint : DDGEndpoints, q : Queries, max_results : MaxResultsInputs,
     locale : Regions]
    \cup
    [endpoint : {"/wikipedia"}, q : Queries, max_results : {MinResults},
     locale : Langs]

NoRequest == [endpoint |-> "", q |-> <<>>, max_results |-> MinResults, locale |-> ""]

IsDDG == req.endpoint \in DDGEndpoints
IsWiki == req.endpoint = "/wikipedia"

(***************************************************************************)
(* What the providers can answer.                                          *)
(***************************************************************************)
DDGRecords ==
    { [title |-> Str("T1"), href |-> Str("h1"), url |-> Str("u1"),
       body |-> Str("b1"), image |-> Str("i1"), thumbnail |-> Str("t1"),
       date |-> Str("d1"), source |-> Str("s1")],
      [title |-> Str("T2")],
      [href |-> Str("h3"), url |-> Str("u3"), image |-> Str("i3"), body |-> Null],
      [title |-> Null, href |-> Str("h4"), url |-> Str("u4"), image |-> Str("i4")] }

SpanOpen == "<span class=\"searchmatch\">"
SpanClose == "</span>"

WikiRecords ==
    { [title |-> <<"N", " ", "Y">>,
       snippet |-> <<SpanOpen, "N", SpanClose, " ", "c">>, wordcount |-> 12],
      [title |-> <<"P">>],
      [snippet |-> <<"x">>] }

\* a provider text of n characters
TextOfLen(n) == [i \in 1..n |-> IF i % 3 = 0 THEN "x" ELSE IF i % 3 = 1 THEN "y" ELSE "z"]
ExtractLens == {0, 1} \cup ((ExtractLimit - 1)..(ExtractLimit + MaxExtra))
NullText == [tag |-> "null", val |-> <<>>]
WikiPages ==
    { <<>> }
    \cup { [extract |-> [tag |-> "str", val |-> TextOfLen(n)]] : n \in ExtractLens }
    \cup { [extract |-> NullText] }
PageLists == SeqsUpTo(WikiPages, 1)

ProviderErrors == { <<"timed", " ", "out">>, <<"429">> }

(***************************************************************************)
(* Result normalization.                                                   *)
(***************************************************************************)
\* SearchResult(...), NewsResult(...), ImageResult(...): the fields read
NormalizeRecord(endpoint, item) ==
    CASE endpoint = "/search" ->
           [title |-> Get(item, "title", Str("Sans titre")),
            url |-> Get(item, "href", Str("")),
            content |-> Get(item, "body", Str("")),
            source |-> Str("DuckDuckGo")]
      [] endpoint = "/news" ->
           [title |-> Get(item, "title", Str("Sans titre")),
            url |-> Get(item, "url", Str("")),
            body |-> Get(item, "body", Str("")),
            date |-> Get(item, "date", Str("")),
            source |-> Get(item, "source", Str(""))]
      [] endpoint = "/images" ->
           [title |-> Get(item, "title", Str("Sans titre")),
            url |-> Get(item, "url", Str("")),
            image_url |-> Get(item, "image", Str("")),
            thumbnail |-> Get(item, "thumbnail", Str("")),
            source |-> Get(item, "source", Str(""))]

\* the pydantic models: which fields are declared str and not Optional[str]
RequiredStr(endpoint) ==
    CASE endpoint = "/search" -> {"title", "url", "source"}
      [] endpoint = "/news" -> {"title", "url"}
      [] endpoint = "/images" -> {"title", "url", "image_url"}

\* whether the model's constructor accepts the record
Validates(endpoint, item) ==
    \A f \in RequiredStr(endpoint) : IsStr(NormalizeRecord(endpoint, item)[f])

ValidationErrorText == <<"validation error: ", "Input should be a valid string">>

WikiUrl(lang, title) ==
    <<"https://", lang, ".wikipedia.org/wiki/">> \o ReplaceChar(title, " ", "_")

\* the dict built for each search candidate
NormalizeWiki(lang, item) ==
    [title |-> item["title"],
     url |-> WikiUrl(lang, item["title"]),
     snippet |-> RemoveAll(RemoveAll(Get(item, "snippet", <<>>), SpanOpen), SpanClose),
     wordcount |-> Get(item, "wordcount", 0)]

KeyErrorText == <<"'title'">>
TypeErrorText == <<"'NoneType' object is not subscriptable">>

\* page.get("extract", "")[:1000], given that the value is a string
ExtractOf(page) ==
    Truncate(Get(page, "extract", [tag |-> "str", val |-> <<>>]).val, ExtractLimit)

\* next(iter(pages.values()), {})
FirstPage(ps) == IF ps = <<>> THEN <<>> ELSE ps[1]

(***************************************************************************)
(* Responses.                                                              *)
(***************************************************************************)
Detail400 == <<"Parametre 'q' requis et non vide.">>
DetailUnavailable == <<"Moteur de recherche non disponible.">>
Detail422 == <<"max_results: ", "out of range">>
ErrorPrefix(endpoint) ==
    IF endpoint = "/wikipedia"
    THEN <<"Erreur Wikipedia : ">>
    ELSE <<"Erreur lors de la recherche : ">>

\* raise HTTPException(status_code=..., detail=...)
ErrorResponse(status, detail) ==
    [status |-> status, detail |-> detail, body |-> <<>>]

\* return {...}
SuccessResponse(body) ==
    [status |-> 200, detail |-> <<>>, body |-> <<body>>]

\* the body of /search, /news and /images
SearchBody(r, rs) ==
    [query |-> r.q, region |-> r.locale, count |-> Len(rs), results |-> rs]

\* the body of /wikipedia without candidates
EmptyWikiBody(r) ==
    [query |-> r.q, lang |-> r.locale, count |-> 0, results |-> <<>>]

\* the body of /wikipedia with candidates
WikiBody(r, title, ext, rs) ==
    [query |-> r.q, lang |-> r.locale, count |-> Len(rs),
     top_article |-> [title |-> title, url |-> WikiUrl(r.locale, title),
                      extract |-> ext],
     results |-> rs]

Done == pc = "done"
Status == response[1].status

(***************************************************************************)
(* The handlers.                                                           *)
(***************************************************************************)
Init ==
    /\ DDGS_AVAILABLE \in BOOLEAN
    /\ pc = "idle"
    /\ req = NoRequest
    /\ conns = {}
    /\ opened = 0
    /\ calls = <<>>
    /\ returned = <<>>
    /\ raw = <<>>
    /\ top_title = <<>>
    /\ pages = <<>>
    /\ extract = <<>>
    /\ results = <<>>
    /\ exc = <<>>
    /\ response = <<>>

\* a request arrives on one of the four routes
Receive ==
    /\ pc = "idle"
    /\ \E r \in Requests : req' = r
    /\ pc' = "validate"
    /\ UNCHANGED <<DDGS_AVAILABLE, conns, opened, calls, returned, raw, top_title,
                   pages, extract, results, exc, response>>

\* Query(10, ge=1, le=50): the framework rejects the request before the
\* handler runs, with its validation status 422
ValidateParams ==
    /\ pc = "validate"
    /\ IF IsDDG /\ req.max_results \notin MinResults..MaxResults
       THEN /\ response' = <<ErrorResponse(422, Detail422)>>
            /\ pc' = "done"
       ELSE /\ pc' = "check_q"
            /\ UNCHANGED response
    /\ UNCHANGED <<DDGS_AVAILABLE, req, conns, opened, calls, returned, raw,
                   top_title, pages, extract, results, exc>>

\* if not q or not q.strip(): raise HTTPException(400)
CheckQuery ==
    /\ pc = "check_q"
    /\ IF IsBlank(req.q)
       THEN /\ response' = <<ErrorResponse(400, Detail400)>>
            /\ pc' = "done"
       ELSE /\ pc' = IF IsDDG THEN "check_ddgs" ELSE "open1"
            /\ UNCHANGED response
    /\ UNCHANGED <<DDGS_AVAILABLE, req, conns, opened, calls, returned, raw,
                   top_title, pages, extract, results, exc>>

\* the same handler step without the availability test
CheckAvailableSkipped ==
    /\ pc = "check_ddgs"
    /\ pc' = "open1"
    /\ UNCHANGED <<DDGS_AVAILABLE, req, conns, opened, calls, returned, raw,
                   top_title, pages, extract, results, exc, response>>

\* if not DDGS_AVAILABLE: raise HTTPException(503)
CheckAvailable ==
    /\ pc = "check_ddgs"
    /\ IF ~DDGS_AVAILABLE
       THEN /\ response' = <<ErrorResponse(503, DetailUnavailable)>>
            /\ pc' = "done"
       ELSE /\ pc' = "open1"
            /\ UNCHANGED response
    /\ UNCHANGED <<DDGS_AVAILABLE, req, conns, opened, calls, returned, raw,
                   top_title, pages, extract, results, exc>>

\* with DDGS() as ddgs: / async with httpx.AsyncClient(...) as client:
\* the constructor gives a connection or raises
OpenConnection ==
    /\ pc \in {"open1", "open2"}
    /\ \/ /\ conns' = conns \cup {opened + 1}
          /\ opened' = opened + 1
          /\ pc' = IF pc = "open1" THEN "query1" ELSE "query2"
          /\ UNCHANGED exc
       \/ /\ \E e \in ProviderErrors : exc' = <<e>>
          /\ pc' = "except"
          /\ UNCHANGED <<conns, opened>>
    /\ UNCHANGED <<DDGS_AVAILABLE, req, calls, returned, raw, top_title, pages,
                   extract, results, response>>

\* the provider call of each of /search, /news, /images
DDGOp(endpoint) ==
    CASE endpoint = "/search" -> "text"
      [] endpoint = "/news" -> "news"
      [] endpoint = "/images" -> "images"

\* list(...): the records are collected as the provider yields them
CollectReversed(records) ==
    [i \in 1..Len(records) |-> records[Len(records) + 1 - i]]
Collect(records) == records

\* raw = list(ddgs.text(q.strip(), max_results=max_results, region=region))
QueryDDG ==
    /\ pc = "query1"
    /\ IsDDG
    /\ calls' = Append(calls, [conn |-> opened, op |-> DDGOp(req.endpoint),
                               query |-> Strip(req.q),
                               max_results |-> req.max_results,
                               region |-> req.locale])
    /\ \/ \E rs \in SeqsUpTo(DDGRecords, MaxRecords) :
             /\ returned' = <<rs>>
             /\ raw' = Collect(rs)
             /\ UNCHANGED exc
       \/ /\ \E e \in ProviderErrors : exc' = <<e>>
          /\ UNCHANGED <<returned, raw>>
    /\ pc' = "exit1"
    /\ UNCHANGED <<DDGS_AVAILABLE, req, conns, opened, top_title, pages, extract,
                   results, response>>

\* resp = await client.get(search_url, params=params_search);
\* resp.raise_for_status(); data = resp.json();
\* search_results = data.get("query", {}).get("search", [])
QueryWikiSearch ==
    /\ pc = "query1"
    /\ IsWiki
    /\ calls' = Append(calls, [conn |-> opened, op |-> "search",
                               query |-> Strip(req.q), lang |-> req.locale])
    /\ \/ \E rs \in SeqsUpTo(WikiRecords, MaxRecords) :
             /\ returned' = <<rs>>
             /\ raw' = Collect(rs)
             /\ UNCHANGED exc
       \/ /\ \E e \in ProviderErrors : exc' = <<e>>
          /\ UNCHANGED <<returned, raw>>
    /\ pc' = "exit1"
    /\ UNCHANGED <<DDGS_AVAILABLE, req, conns, opened, top_title, pages, extract,
                   results, response>>

\* where the handler goes on after a with block
AfterWith ==
    IF exc # <<>> THEN "except"
    ELSE IF pc = "exit2" THEN "extract"
    ELSE IF IsDDG THEN "normalize"
    ELSE "branch"

\* a with block that keeps the connection when its body raised
ExitWithLeak ==
    /\ pc \in {"exit1", "exit2"}
    /\ conns' = IF exc # <<>> THEN conns ELSE {}
    /\ pc' = AfterWith
    /\ UNCHANGED <<DDGS_AVAILABLE, req, opened, calls, returned, raw, top_title,
                   pages, extract, results, exc, response>>

\* leaving the with block, normally or by an exception, releases the connection
ExitWith ==
    /\ pc \in {"exit1", "exit2"}
    /\ conns' = conns \ {opened}
    /\ pc' = AfterWith
    /\ UNCHANGED <<DDGS_AVAILABLE, req, opened, calls, returned, raw, top_title,
                   pages, extract, results, exc, response>>

\* the list comprehension takes the records in order
AddResultFirst(rs, r) == <<r>> \o rs
AddResult(rs, r) == Append(rs, r)

\* results = [SearchResult(...) for item in raw], one record at a time
NormalizeNext ==
    /\ pc = "normalize"
    /\ IsDDG
    /\ Len(results) < Len(raw)
    /\ LET item == raw[Len(results) + 1] IN
         IF Validates(req.endpoint, item)
         THEN /\ results' = AddResult(results, NormalizeRecord(req.endpoint, item))
              /\ UNCHANGED <<pc, exc>>
         ELSE /\ exc' = <<ValidationErrorText>>
              /\ pc' = "except"
              /\ UNCHANGED results
    /\ UNCHANGED <<DDGS_AVAILABLE, req, conns, opened, calls, returned, raw,
                   top_title, pages, extract, response>>

\* return {"query": q, "region": region, "count": len(results), "results": [...]}
RespondSearch ==
    /\ pc = "normalize"
    /\ IsDDG
    /\ Len(results) = Len(raw)
    /\ response' = <<SuccessResponse(SearchBody(req, results))>>
    /\ pc' = "done"
    /\ UNCHANGED <<DDGS_AVAILABLE, req, conns, opened, calls, returned, raw,
                   top_title, pages, extract, results, exc>>

\* /wikipedia going on to the second call whatever the search gave
WikiBranchAlwaysFetch ==
    /\ pc = "branch"
    /\ IF raw # <<>> /\ "title" \notin DOMAIN raw[1]
       THEN /\ exc' = <<KeyErrorText>>
            /\ pc' = "except"
            /\ UNCHANGED <<top_title, response>>
       ELSE /\ top_title' = IF raw = <<>> THEN <<>> ELSE raw[1]["title"]
            /\ pc' = "open2"
            /\ UNCHANGED <<exc, response>>
    /\ UNCHANGED <<DDGS_AVAILABLE, req, conns, opened, calls, returned, raw,
                   pages, extract, results>>

\* if not search_results: return {..., "count": 0, "results": []}
\* top_title = search_results[0]["title"]
WikiBranch ==
    /\ pc = "branch"
    /\ IF raw = <<>>
       THEN /\ response' = <<SuccessResponse(EmptyWikiBody(req))>>
            /\ pc' = "done"
            /\ UNCHANGED <<top_title, exc>>
       ELSE IF "title" \notin DOMAIN raw[1]
       THEN /\ exc' = <<KeyErrorText>>
            /\ pc' = "except"
            /\ UNCHANGED <<top_title, response>>
       ELSE /\ top_title' = raw[1]["title"]
            /\ pc' = "open2"
            /\ UNCHANGED <<exc, response>>
    /\ UNCHANGED <<DDGS_AVAILABLE, req, conns, opened, calls, returned, raw,
                   pages, extract, results>>

\* resp2 = await client.get(search_url, params=params_summary);
\* resp2.raise_for_status(); data2 = resp2.json();
\* pages = data2.get("query", {}).get("pages", {})
QueryWikiExtract ==
    /\ pc = "query2"
    /\ calls' = Append(calls, [conn |-> opened, op |-> "extract",
                               query |-> top_title, lang |-> req.locale])
    /\ \/ /\ \E ps \in PageLists : pages' = ps
          /\ UNCHANGED exc
       \/ /\ \E e \in ProviderErrors : exc' = <<e>>
          /\ UNCHANGED pages
    /\ pc' = "exit2"
    /\ UNCHANGED <<DDGS_AVAILABLE, req, conns, opened, returned, raw, top_title,
                   extract, results, response>>

\* page = next(iter(pages.values()), {}); extract = page.get("extract", "")[:1000]
WikiExtract ==
    /\ pc = "extract"
    /\ LET page == FirstPage(pages) IN
         IF "extract" \in DOMAIN page /\ page["extract"].tag = "null"
         THEN /\ exc' = <<TypeErrorText>>
              /\ pc' = "except"
              /\ UNCHANGED extract
         ELSE /\ extract' = ExtractOf(page)
              /\ pc' = "normalize"
              /\ UNCHANGED exc
    /\ UNCHANGED <<DDGS_AVAILABLE, req, conns, opened, calls, returned, raw,
                   top_title, pages, results, response>>

\* results = [{"title": item["title"], ...} for item in search_results]
WikiNormalizeNext ==
    /\ pc = "normalize"
    /\ IsWiki
    /\ Len(results) < Len(raw)
    /\ LET item == raw[Len(results) + 1] IN
         IF "title" \in DOMAIN item
         THEN /\ results' = AddResult(results, NormalizeWiki(req.locale, item))
              /\ UNCHANGED <<pc, exc>>
         ELSE /\ exc' = <<KeyErrorText>>
              /\ pc' = "except"
              /\ UNCHANGED results
    /\ UNCHANGED <<DDGS_AVAILABLE, req, conns, opened, calls, returned, raw,
                   top_title, pages, extract, response>>

\* return {"query": q, "lang": lang, "count": len(results), "top_article": ..., ...}
RespondWiki ==
    /\ pc = "normalize"
    /\ IsWiki
    /\ Len(results) = Len(raw)
    /\ response' = <<SuccessResponse(WikiBody(req, top_title, extract, results))>>
    /\ pc' = "done"
    /\ UNCHANGED <<DDGS_AVAILABLE, req, conns, opened, calls, returned, raw,
                   top_title, pages, extract, results, exc>>

\* an except clause that answers with what was normalized so far
ExceptPartial ==
    /\ pc = "except"
    /\ response' = <<[status |-> 503, detail |-> ErrorPrefix(req.endpoint) \o exc[1],
                      body |-> <<SearchBody(req, results)>>]>>
    /\ pc' = "done"
    /\ UNCHANGED <<DDGS_AVAILABLE, req, conns, opened, calls, returned, raw,
                   top_title, pages, extract, results, exc>>

\* except Exception as exc: raise HTTPException(503, detail=f"...{str(exc)}")
Except ==
    /\ pc = "except"
    /\ response' = <<ErrorResponse(503, ErrorPrefix(req.endpoint) \o exc[1])>>
    /\ pc' = "done"
    /\ UNCHANGED <<DDGS_AVAILABLE, req, conns, opened, calls, returned, raw,
                   top_title, pages, extract, results, exc>>

\* the request is over: nothing of it is kept, the next one starts afresh
NextRequest ==
    /\ pc = "done"
    /\ pc' = "idle"
    /\ req' = NoRequest
    /\ conns' = {}
    /\ opened' = 0
    /\ calls' = <<>>
    /\ returned' = <<>>
    /\ raw' = <<>>
    /\ top_title' = <<>>
    /\ pages' = <<>>
    /\ extract' = <<>>
    /\ results' = <<>>
    /\ exc' = <<>>
    /\ response' = <<>>
    /\ UNCHANGED DDGS_AVAILABLE

Next ==
    \/ Receive
    \/ ValidateParams
    \/ CheckQuery
    \/ CheckAvailable
    \/ OpenConnection
    \/ QueryDDG
    \/ QueryWikiSearch
    \/ ExitWith
    \/ NormalizeNext
    \/ RespondSearch
    \/ WikiBranch
    \/ QueryWikiExtract
    \/ WikiExtract
    \/ WikiNormalizeNext
    \/ RespondWiki
    \/ Except
    \/ NextRequest

Spec == Init /\ [][Next]_vars

(***************************************************************************)
(* What the claims speak of, stated without the handlers' own operators.   *)
(***************************************************************************)
AllWhitespace(s) == \A i \in 1..Len(s) : s[i] \in Whitespace

\* t is s without its leading and trailing whitespace
IsTrimOf(t, s) ==
    \E i \in 0..Len(s) : \E j \in 0..(Len(s) - i) :
        /\ \A k \in 1..i : s[k] \in Whitespace
        /\ \A k \in (Len(s) - j + 1)..Len(s) : s[k] \in Whitespace
        /\ t = SubSeq(s, i + 1, Len(s) - j)
        /\ t # <<>> => (t[1] \notin Whitespace /\ t[Len(t)] \notin Whitespace)

IsPrefix(p, s) == Len(p) <= Len(s) /\ \A i \in 1..Len(p) : p[i] = s[i]

InRange == req.max_results \in MinResults..MaxResults
Succeeded == Done /\ Status = 200
Body == response[1].body[1]
Detail == response[1].detail
CallsOn(c) == {i \in DOMAIN calls : calls[i].conn = c}
ExtractCalls == {i \in DOMAIN calls : calls[i].op = "extract"}

\* the text of the extract the provider sent: "" when the page has none
ProviderText ==
    LET page == IF pages = <<>> THEN <<>> ELSE pages[1]
    IN IF "extract" \in DOMAIN page THEN page["extract"].val ELSE <<>>

(***************************************************************************)
(* C1. A successful /search, /news or /images response has count equal to  *)
(* the length of its results, and at most max_results results, whatever    *)
(* the provider returned.                                                  *)
(***************************************************************************)
C1_CountAndCap ==
    (Succeeded /\ IsDDG) =>
        /\ Body.count = Len(Body.results)
        /\ Len(Body.results) <= req.max_results

(***************************************************************************)
(* C2. On every endpoint a request whose q is empty or all whitespace is   *)
(* answered with status 400, whatever the other parameters and whether or  *)
(* not the provider is available.                                          *)
(***************************************************************************)
C2_BlankQueryIs400 ==
    (Done /\ AllWhitespace(req.q)) => Status = 400

(***************************************************************************)
(* C3. On /search, /news and /images a request with max_results outside    *)
(* 1..50 is answered with status 400 and no provider call is made for it.  *)
(***************************************************************************)
C3_OutOfRangeIs400 ==
    (IsDDG /\ ~InRange) =>
        /\ calls = <<>>
        /\ opened = 0
        /\ Done => Status = 400

(***************************************************************************)
(* C4. When an exception was raised in a provider call or while a record   *)
(* was normalized, the response is a 503 whose detail contains the         *)
(* exception's text, and it carries no results; every response is either   *)
(* a success with its body or an error without one.                        *)
(***************************************************************************)
C4_ExceptionIs503 ==
    Done =>
        /\ exc # <<>> =>
             /\ Status = 503
             /\ Contains(Detail, exc[1])
             /\ response[1].body = <<>>
        /\ \/ Status = 200 /\ Len(response[1].body) = 1 /\ exc = <<>>
           \/ Status # 200 /\ response[1].body = <<>>

C4_Witness ==
    /\ Done
    /\ exc # <<>>
    /\ results # <<>>
    /\ Status = 503

(***************************************************************************)
(* C5. On /wikipedia, zero search candidates give a success with count 0   *)
(* and no results, and no extract call; an extract call is only ever       *)
(* issued second, after the search call returned a non-empty list and its  *)
(* connection was released.                                                *)
(***************************************************************************)
C5_ShortCircuit ==
    IsWiki =>
        /\ returned = << <<>> >> => ExtractCalls = {}
        /\ (Done /\ returned = << <<>> >>) =>
             /\ Status = 200
             /\ Body.count = 0
             /\ Body.results = <<>>
        /\ \A i \in ExtractCalls :
             /\ i = 2
             /\ calls[1].op = "search"
             /\ returned # <<>>
             /\ returned[1] # <<>>
             /\ 1 \notin conns

C5_Witness ==
    /\ IsWiki
    /\ Done
    /\ returned = << <<>> >>
    /\ Len(calls) = 1

(***************************************************************************)
(* C6. The extract of a successful /wikipedia response with a top_article  *)
(* is at most 1000 characters long and is the prefix of the provider's     *)
(* text of that length, the empty string when the page has no extract.     *)
(***************************************************************************)
C6_ExtractBounded ==
    (Succeeded /\ IsWiki /\ "top_article" \in DOMAIN Body) =>
        LET ext == Body.top_article.extract IN
        /\ Len(ext) <= ExtractLimit
        /\ IsPrefix(ext, ProviderText)
        /\ Len(ext) < ExtractLimit => ext = ProviderText

C6_Witness ==
    /\ Succeeded
    /\ IsWiki
    /\ "top_article" \in DOMAIN Body
    /\ Len(ProviderText) > ExtractLimit
    /\ Len(Body.top_article.extract) = ExtractLimit

(***************************************************************************)
(* C7, as stated. With the provider library unavailable, every request to  *)
(* /search, /news or /images with a non-blank q gets the fixed 503 and no  *)
(* connection is opened or queried.                                        *)
(***************************************************************************)
C7_Original ==
    (~DDGS_AVAILABLE /\ IsDDG /\ ~AllWhitespace(req.q)) =>
        /\ opened = 0
        /\ calls = <<>>
        /\ Done => (Status = 503 /\ Detail = DetailUnavailable)

(***************************************************************************)
(* C7, amended. With the provider library unavailable, a request to        *)
(* /search, /news or /images with a non-blank q and max_results in 1..50   *)
(* gets the fixed 503; no connection is opened or queried on these         *)
(* endpoints; /wikipedia never answers with that message.                  *)
(***************************************************************************)
C7_Unavailable ==
    /\ (~DDGS_AVAILABLE /\ IsDDG) =>
         /\ opened = 0
         /\ calls = <<>>
         /\ (Done /\ ~AllWhitespace(req.q) /\ InRange) =>
              (Status = 503 /\ Detail = DetailUnavailable)
    /\ (IsWiki /\ Done) => Detail # DetailUnavailable

C7_Witness ==
    /\ ~DDGS_AVAILABLE
    /\ IsDDG
    /\ Done
    /\ ~AllWhitespace(req.q)
    /\ Status = 503
    /\ Detail = DetailUnavailable

(***************************************************************************)
(* C8. Every provider call that carries the query carries it without its   *)
(* leading and trailing whitespace, and no connection is opened and no     *)
(* call issued for a request whose q is empty or all whitespace.           *)
(***************************************************************************)
C8_TrimmedQuery ==
    /\ \A i \in DOMAIN calls :
         calls[i].op # "extract" => IsTrimOf(calls[i].query, req.q)
    /\ AllWhitespace(req.q) => (calls = <<>> /\ opened = 0)

C8_Witness ==
    \E i \in DOMAIN calls :
        /\ calls[i].op # "extract"
        /\ calls[i].query # req.q
        /\ calls[i].query # <<>>

(***************************************************************************)
(* C9. At most one provider connection is open at a time; none is open     *)
(* once the handler is past its with blocks or has responded; every        *)
(* released connection has had exactly one query, an open one at most one. *)
(***************************************************************************)
C9_ScopedConnections ==
    /\ Cardinality(conns) <= 1
    /\ conns \subseteq 1..opened
    /\ pc \in {"done", "except", "normalize", "branch", "extract"} => conns = {}
    /\ \A c \in 1..opened :
         IF c \in conns
         THEN Cardinality(CallsOn(c)) <= 1
         ELSE Cardinality(CallsOn(c)) = 1

C9_Witness ==
    /\ Done
    /\ opened = 2
    /\ Len(calls) = 2
    /\ exc # <<>>
    /\ conns = {}

(***************************************************************************)
(* C10. The results of a successful response are the normalizations of     *)
(* the records the provider returned, one for each, in the same order.     *)
(***************************************************************************)
C10_OrderPreserved ==
    Succeeded =>
        /\ Len(Body.results) = Len(returned[1])
        /\ \A i \in 1..Len(returned[1]) :
             Body.results[i] =
                IF IsDDG
                THEN NormalizeRecord(req.endpoint, returned[1][i])
                ELSE NormalizeWiki(req.locale, returned[1][i])

C10_Witness ==
    /\ Succeeded
    /\ Len(Body.results) = 2
    /\ returned[1][1] # returned[1][2]
    /\ Body.results[1] # Body.results[2]

====
